---- MODULE Spec2Model ----
(***************************************************************************)
(* Model of the scheduling pass of task_scheduler.py: slot generation,     *)
(* per-task splitting, the CP model handed to the solver, the solver's     *)
(* outcome, and the reconstruction of the schedule.                        *)
(*                                                                         *)
(* Time is in seconds, as in the program (timestamps).  A datetime is a    *)
(* record [date, time]: a day number and the seconds since midnight.       *)
(* Day 0 is a Monday.  Priorities are in tenths (10 stands for 1.0).       *)
(***************************************************************************)
EXTENDS Integers, Sequences, FiniteSets, TLC

\* ---------------------------------------------------------------- bounds
MaxTasks == 2
MaxRows == 2
EndDay == 1
MaxIntervals == 3

\* ------------------------------------------------------ program constants
SlotMinutes == 5
SecondsPerMinute == 60
SecondsPerDay == 86400
DaysPerWeek == 7

VARIABLES
    db_tasks,         \* rows of table tasks with status 'pending', in query order
    db_schedules,     \* rows of table schedules
    db_status,        \* tasks.status per task name
    tasks,            \* Task objects
    all_slots,        \* list of (start, end, category)
    task_starts,      \* name -> domain of start_var
    task_ends,        \* name -> domain of end_var
    linear,           \* name -> c of the constraint end_var == start_var + c
    task_vars,        \* list of (task, split_intervals)
    overlap_intervals,\* intervals handed to AddNoOverlap
    status,           \* solver status
    sol_starts,       \* solver value of start_var, per name
    sol_ends,         \* solver value of end_var, per name
    solution,         \* solver value of each interval's start, per interval name
    task_schedule,    \* name -> list of (start, end)
    combined_schedule,\* name -> list of merged (start, end)
    output,           \* what the pass printed: "none", "schedule", "no_solution"
    remerged,         \* combine_consecutive_slots applied to combined_schedule
    pc,               \* position in the script
    i                 \* index of the task loop

vars == <<db_tasks, db_schedules, db_status, tasks, all_slots, task_starts,
          task_ends, linear, task_vars, overlap_intervals, status, sol_starts,
          sol_ends, solution, task_schedule, combined_schedule, output, remerged,
          pc, i>>

\* ------------------------------------------------------------- helpers
Weekdays == <<"Monday", "Tuesday", "Wednesday", "Thursday", "Friday",
              "Saturday", "Sunday">>

Min(S) == CHOOSE x \in S : \A y \in S : x <= y
Max(S) == CHOOSE x \in S : \A y \in S : x >= y
Range(s) == {s[k] : k \in 1..Len(s)}

RECURSIVE Flatten(_)
Flatten(ss) == IF ss = <<>> THEN <<>> ELSE Head(ss) \o Flatten(Tail(ss))

RECURSIVE SumSeq(_)
SumSeq(s) == IF s = <<>> THEN 0 ELSE Head(s) + SumSeq(Tail(s))

\* all sequences whose k-th element is drawn from doms[k]
RECURSIVE Product(_)
Product(doms) ==
    IF doms = <<>> THEN {<<>>}
    ELSE {<<h>> \o t : h \in Head(doms), t \in Product(Tail(doms))}

\* ------------------------------------------------------ time conversions
datetime_to_int(dt) == dt.date * SecondsPerDay + dt.time

int_to_datetime(ts) == [date |-> ts \div SecondsPerDay, time |-> ts % SecondsPerDay]

combine(d, t) == [date |-> d, time |-> t]

add_minutes(dt, m) ==
    int_to_datetime(datetime_to_int(dt) + m * SecondsPerMinute)

strftime_A(d) == Weekdays[(d % DaysPerWeek) + 1]

\* ------------------------------------------------------------- Task
Task(name, start_time, deadline, duration, priority, category) ==
    [name |-> name,
     start_time |-> datetime_to_int(start_time),
     deadline |-> datetime_to_int(deadline),
     duration |-> duration,
     priority |-> priority,
     category |-> category]

transform_tasks(rows) ==
    [k \in 1..Len(rows) |->
        Task(rows[k].name, rows[k].start_time, rows[k].deadline,
             rows[k].duration, rows[k].priority, rows[k].category)]

\* ------------------------------------------------------- schedules
\* keys of the dict in insertion order
RECURSIVE CategoryOrder(_, _)
CategoryOrder(rows, seen) ==
    IF rows = <<>> THEN <<>>
    ELSE IF Head(rows).category \in seen THEN CategoryOrder(Tail(rows), seen)
    ELSE <<Head(rows).category>>
         \o CategoryOrder(Tail(rows), seen \cup {Head(rows).category})

to_time(h) == h % SecondsPerDay

RECURSIVE ScheduleList(_, _)
ScheduleList(rows, category) ==
    IF rows = <<>> THEN <<>>
    ELSE IF Head(rows).category = category
    THEN <<[days |-> <<Head(rows).day_of_week>>,
            hours |-> <<to_time(Head(rows).start_hour), to_time(Head(rows).end_hour)>>]>>
         \o ScheduleList(Tail(rows), category)
    ELSE ScheduleList(Tail(rows), category)

\* the dict as the list of its items (category, schedule_list)
transform_schedules(rows) ==
    LET keys == CategoryOrder(rows, {})
    IN [k \in 1..Len(keys) |-> <<keys[k], ScheduleList(rows, keys[k])>>]

\* --------------------------------------------------- create_time_slots
RECURSIVE SlotLoop(_, _, _)
SlotLoop(current_slot, end_time, category) ==
    IF datetime_to_int(current_slot) < datetime_to_int(end_time)
    THEN LET next_slot == add_minutes(current_slot, SlotMinutes)
         IN <<<<datetime_to_int(current_slot), datetime_to_int(next_slot), category>>>>
            \o SlotLoop(next_slot, end_time, category)
    ELSE <<>>

ScheduleSlots(current_date, category, schedule) ==
    IF strftime_A(current_date) \in Range(schedule.days)
    THEN SlotLoop(combine(current_date, schedule.hours[1]),
                  combine(current_date, schedule.hours[2]), category)
    ELSE <<>>

DateSlots(schedules, current_date) ==
    Flatten([c \in 1..Len(schedules) |->
        Flatten([r \in 1..Len(schedules[c][2]) |->
            ScheduleSlots(current_date, schedules[c][1], schedules[c][2][r])])])

create_time_slots(schedules, start_date, end_date) ==
    IF start_date > end_date THEN <<>>
    ELSE Flatten([d \in 1..(end_date - start_date + 1) |->
                    DateSlots(schedules, start_date + d - 1)])

\* -------------------------------------------------------- task loop
RECURSIVE SelectPairs(_, _)
SelectPairs(slots, task) ==
    IF slots = <<>> THEN <<>>
    ELSE LET s == Head(slots)
         IN IF s[3] = task.category /\ s[1] >= task.start_time /\ s[2] <= task.deadline
            THEN <<<<s[1], s[2]>>>> \o SelectPairs(Tail(slots), task)
            ELSE SelectPairs(Tail(slots), task)

\* the filter without its category test
RECURSIVE valid_slots_any_category(_, _)
valid_slots_any_category(task, slots) ==
    IF slots = <<>> THEN <<>>
    ELSE LET s == Head(slots)
         IN IF s[1] >= task.start_time /\ s[2] <= task.deadline
            THEN <<<<s[1], s[2]>>>> \o valid_slots_any_category(task, Tail(slots))
            ELSE valid_slots_any_category(task, Tail(slots))

valid_slots(task, slots) == SelectPairs(slots, task)

valid_start_times(vs) == [k \in 1..Len(vs) |-> vs[k][1]]

\* the loop of lines 173-190; acc is split_intervals
RECURSIVE SplitLoop(_, _, _, _)
SplitLoop(name, vs, remaining_duration, acc) ==
    IF vs = <<>> \/ remaining_duration <= 0
    THEN [split_intervals |-> acc, remaining_duration |-> remaining_duration]
    ELSE LET start == Head(vs)[1]
             end == Head(vs)[2]
             slot_duration == end - start
             overlap_duration == IF remaining_duration < slot_duration
                                 THEN remaining_duration ELSE slot_duration
             split_interval ==
                 [name |-> <<name, Len(acc)>>,
                  start_lb |-> start, start_ub |-> end - overlap_duration,
                  end_lb |-> start + overlap_duration, end_ub |-> end,
                  size |-> overlap_duration,
                  ge |-> start, le |-> end]
         IN SplitLoop(name, Tail(vs), remaining_duration - overlap_duration,
                      Append(acc, split_interval))

\* ------------------------------------------- combine_consecutive_slots
TupleLess(a, b) == a[1] < b[1] \/ (a[1] = b[1] /\ a[2] < b[2])

\* keys of day_slots in insertion order
RECURSIVE DayOrder(_, _)
DayOrder(slots, seen) ==
    IF slots = <<>> THEN <<>>
    ELSE LET day == int_to_datetime(Head(slots)[1]).date
         IN IF day \in seen THEN DayOrder(Tail(slots), seen)
            ELSE <<day>> \o DayOrder(Tail(slots), seen \cup {day})

RECURSIVE DaySlotsOf(_, _)
DaySlotsOf(slots, day) ==
    IF slots = <<>> THEN <<>>
    ELSE IF int_to_datetime(Head(slots)[1]).date = day
    THEN <<Head(slots)>> \o DaySlotsOf(Tail(slots), day)
    ELSE DaySlotsOf(Tail(slots), day)

\* merges only disjoint pairs: a block that was just extended is never
\* extended again
RECURSIVE MergePairsOnly(_, _)
MergePairsOnly(combined, rest) ==
    IF rest = <<>> THEN combined
    ELSE IF Len(rest) >= 2 /\ rest[2][1] = rest[1][2]
    THEN MergePairsOnly(Append(combined, <<rest[1][1], rest[2][2]>>), Tail(Tail(rest)))
    ELSE MergePairsOnly(Append(combined, Head(rest)), Tail(rest))

\* the loop of lines 59-64; combined is non-empty
RECURSIVE MergeLoop(_, _)
MergeLoop(combined, rest) ==
    IF rest = <<>> THEN combined
    ELSE LET last == combined[Len(combined)]
             current == Head(rest)
         IN IF current[1] = last[2]
            THEN MergeLoop([combined EXCEPT ![Len(combined)] = <<last[1], current[2]>>],
                           Tail(rest))
            ELSE MergeLoop(Append(combined, current), Tail(rest))

CombineDayPairsOnly(slots, day) ==
    MergePairsOnly(<<>>, SortSeq(DaySlotsOf(slots, day), TupleLess))

CombineDay(slots, day) ==
    LET daily_slots == SortSeq(DaySlotsOf(slots, day), TupleLess)
    IN MergeLoop(<<daily_slots[1]>>, Tail(daily_slots))

CombineTask(slots) ==
    LET days == DayOrder(slots, {})
    IN Flatten([d \in 1..Len(days) |-> CombineDay(slots, days[d])])

combine_consecutive_slots(ts) ==
    [t \in {n \in DOMAIN ts : ts[n] # <<>>} |-> CombineTask(ts[t])]

\* ------------------------------------------------------------ solver
\* CpSolver runs with its default parameters (line 212: no time or solution
\* limit), so Solve ends with a solution or with a proof that there is none.
\* A solution is any assignment that satisfies the constraints of the model;
\* OPTIMAL is reported with one that maximises the objective.
\* values of one interval's start that satisfy its own constraints
IntervalDomain(iv) ==
    {s \in iv.start_lb..iv.start_ub :
        /\ s + iv.size \in iv.end_lb..iv.end_ub
        /\ s >= iv.ge
        /\ s + iv.size <= iv.le}

\* no constraint between intervals of different tasks
NoOverlapWithinTaskOnly(ivs, vals) ==
    \A j, k \in 1..Len(ivs) :
        (j < k /\ ivs[j].name[1] = ivs[k].name[1]) =>
            \/ vals[j] + ivs[j].size <= vals[k]
            \/ vals[k] + ivs[k].size <= vals[j]

\* AddNoOverlap over the whole list
NoOverlap(ivs, vals) ==
    \A j, k \in 1..Len(ivs) :
        j < k =>
            \/ vals[j] + ivs[j].size <= vals[k]
            \/ vals[k] + ivs[k].size <= vals[j]

IntervalSolutions ==
    {vals \in Product([j \in 1..Len(overlap_intervals) |->
                          IntervalDomain(overlap_intervals[j])]) :
        NoOverlap(overlap_intervals, vals)}

\* values of start_var for which end_var == start_var + c has a value
StartDomain(name) ==
    {s \in task_starts[name].lb..task_starts[name].ub :
        s + linear[name] \in task_ends[name].lb..task_ends[name].ub}

StartSolutions ==
    Product([k \in 1..Len(task_vars) |-> StartDomain(task_vars[k].task.name)])

objective(starts) ==
    SumSeq([k \in 1..Len(task_vars) |-> task_vars[k].task.priority * starts[k]])

OptimalStartSolutions ==
    {s \in StartSolutions : \A o \in StartSolutions : objective(o) <= objective(s)}

Feasible == IntervalSolutions # {} /\ StartSolutions # {}

IntervalIndex(name) == CHOOSE j \in 1..Len(overlap_intervals) : overlap_intervals[j].name = name

TaskIndex(name) == CHOOSE k \in 1..Len(task_vars) : task_vars[k].task.name = name

IntervalNames == {overlap_intervals[j].name : j \in 1..Len(overlap_intervals)}

TaskNames == {task_vars[k].task.name : k \in 1..Len(task_vars)}

\* ------------------------------------------------------------ inputs
DT(d, t) == [date |-> d, time |-> t]

TaskRow(name, s, e, duration, priority, category) ==
    [name |-> name, start_time |-> DT(0, s), deadline |-> DT(0, e),
     duration |-> duration, priority |-> priority, category |-> category]

TaskRows ==
    {TaskRow("t1", 0, 600, 5, 10, "a"),
     TaskRow("t2", 300, 900, 5, 5, "a"),
     TaskRow("t3", 0, 600, 4, 10, "a"),
     TaskRow("t4", 0, 900, 15, 8, "a"),
     TaskRow("t5", 0, 1200, 15, 5, "a"),
     TaskRow("t6", 0, 600, 5, 3, "b")}

ScheduleRow(category, day, s, e) ==
    [category |-> category, day_of_week |-> day, start_hour |-> s, end_hour |-> e]

ScheduleRows ==
    {ScheduleRow("a", "Monday", 0, 900),
     ScheduleRow("a", "Monday", 900, 1200),
     ScheduleRow("a", "Monday", 0, 300),
     ScheduleRow("b", "Monday", 0, 900),
     ScheduleRow("a", "Tuesday", 0, 300)}

DistinctSeqs(S, n) ==
    UNION {{q \in [1..m -> S] : \A j, k \in 1..m : j # k => q[j] # q[k]} : m \in 0..n}

\* ORDER BY priority DESC, deadline ASC
QueryOrdered(rows) ==
    \A k \in 1..(Len(rows) - 1) :
        \/ rows[k].priority > rows[k + 1].priority
        \/ /\ rows[k].priority = rows[k + 1].priority
           /\ datetime_to_int(rows[k].deadline) <= datetime_to_int(rows[k + 1].deadline)

start_date == 0
end_date == start_date + EndDay

\* -------------------------------------------------------------- Init
Init ==
    /\ db_tasks \in {q \in DistinctSeqs(TaskRows, MaxTasks) : QueryOrdered(q)}
    /\ db_schedules \in DistinctSeqs(ScheduleRows, MaxRows)
    /\ db_status = [n \in {db_tasks[k].name : k \in 1..Len(db_tasks)} |-> "pending"]
    /\ tasks = transform_tasks(db_tasks)
    /\ all_slots = <<>>
    /\ task_starts = <<>>
    /\ task_ends = <<>>
    /\ linear = <<>>
    /\ task_vars = <<>>
    /\ overlap_intervals = <<>>
    /\ status = "NONE"
    /\ sol_starts = <<>>
    /\ sol_ends = <<>>
    /\ solution = <<>>
    /\ task_schedule = <<>>
    /\ combined_schedule = <<>>
    /\ output = "none"
    /\ remerged = <<>>
    /\ pc = "slots"
    /\ i = 1

\* ------------------------------------------------------------ actions
update_task_status(db, task_name, st) ==
    [n \in DOMAIN db |-> IF n = task_name THEN st ELSE db[n]]

Put(d, key, val) ==
    [n \in DOMAIN d \cup {key} |-> IF n = key THEN val ELSE d[n]]

\* lines 136-142
CreateTimeSlots ==
    /\ pc = "slots"
    /\ all_slots' = create_time_slots(transform_schedules(db_schedules), start_date, end_date)
    /\ pc' = IF tasks = <<>> THEN "solve" ELSE "build"
    /\ UNCHANGED <<db_tasks, db_schedules, db_status, tasks, task_starts, task_ends,
                   linear, task_vars, overlap_intervals, status, sol_starts, sol_ends,
                   solution, task_schedule, combined_schedule, output, i, remerged>>

AfterTask == IF i = Len(tasks) THEN "solve" ELSE "build"

\* lines 155-162: one iteration that ends at the continue
BuildNoSlots ==
    /\ pc = "build"
    /\ i <= Len(tasks)
    /\ valid_start_times(valid_slots(tasks[i], all_slots)) = <<>>
    /\ db_status' = update_task_status(db_status, tasks[i].name, "delayed")
    /\ i' = i + 1
    /\ pc' = AfterTask
    /\ UNCHANGED <<db_tasks, db_schedules, tasks, all_slots, task_starts, task_ends,
                   linear, task_vars, overlap_intervals, status, sol_starts, sol_ends,
                   solution, task_schedule, combined_schedule, output, remerged>>

\* lines 155-202: one full iteration
BuildTask ==
    /\ pc = "build"
    /\ i <= Len(tasks)
    /\ LET task == tasks[i]
           vs == valid_slots(task, all_slots)
           starts == Range(valid_start_times(vs))
       IN /\ vs # <<>>
          /\ LET start_var == [lb |-> Min(starts), ub |-> Max(starts)]
                 end_var == [lb |-> Min(starts), ub |-> Max(starts)]
                 r == SplitLoop(task.name, vs, task.duration * SecondsPerMinute, <<>>)
             IN /\ db_status' = IF r.remaining_duration > 0
                                THEN update_task_status(db_status, task.name, "delayed")
                                ELSE db_status
                /\ task_starts' = Put(task_starts, task.name, start_var)
                /\ task_ends' = Put(task_ends, task.name, end_var)
                /\ linear' = Put(linear, task.name, task.duration * SecondsPerMinute)
                /\ task_vars' = Append(task_vars,
                                       [task |-> task, split_intervals |-> r.split_intervals])
                /\ overlap_intervals' = overlap_intervals \o r.split_intervals
    /\ i' = i + 1
    /\ pc' = AfterTask
    /\ UNCHANGED <<db_tasks, db_schedules, tasks, all_slots, status, sol_starts, sol_ends,
                   solution, task_schedule, combined_schedule, output, remerged>>

ReadBack(k, sol) ==
    LET ivs == task_vars[k].split_intervals
    IN [j \in 1..Len(ivs) |-> <<sol[ivs[j].name], sol[ivs[j].name] + ivs[j].size>>]

\* lines 213-228 when the solver returns st with the values vals (interval
\* starts) and starts (start_var of each task)
SolverReturns(st, vals, starts) ==
    LET sol == [n \in IntervalNames |-> vals[IntervalIndex(n)]]
        ts == [n \in TaskNames |-> ReadBack(TaskIndex(n), sol)]
    IN /\ status' = st
       /\ solution' = sol
       /\ sol_starts' = [n \in TaskNames |-> starts[TaskIndex(n)]]
       /\ sol_ends' = [n \in TaskNames |-> starts[TaskIndex(n)] + linear[n]]
       /\ task_schedule' = ts
       /\ combined_schedule' = combine_consecutive_slots(ts)
       /\ output' = "schedule"
       /\ pc' = "done"
       /\ UNCHANGED <<db_tasks, db_schedules, db_status, tasks, all_slots, task_starts,
                      task_ends, linear, task_vars, overlap_intervals, remerged, i>>

\* lines 204-228, the search ran to the end and found an optimum
SolveOptimal ==
    /\ pc = "solve"
    /\ \E vals \in IntervalSolutions : \E starts \in OptimalStartSolutions :
          SolverReturns("OPTIMAL", vals, starts)

\* lines 204-228, the search stopped at some solution
SolveFeasible ==
    /\ pc = "solve"
    /\ \E vals \in IntervalSolutions : \E starts \in StartSolutions :
          SolverReturns("FEASIBLE", vals, starts)

\* lines 204-216 and 229-230, the constraints have no solution
SolveInfeasible ==
    /\ pc = "solve"
    /\ ~Feasible
    /\ status' = "INFEASIBLE"
    /\ output' = "no_solution"
    /\ pc' = "done"
    /\ UNCHANGED <<db_tasks, db_schedules, db_status, tasks, all_slots, task_starts,
                   task_ends, linear, task_vars, overlap_intervals, sol_starts, sol_ends,
                   solution, task_schedule, combined_schedule, remerged, i>>

Next ==
    \/ CreateTimeSlots
    \/ BuildNoSlots
    \/ BuildTask
    \/ SolveOptimal
    \/ SolveFeasible
    \/ SolveInfeasible

Spec == Init /\ [][Next]_vars

\* ------------------------------------- combine_consecutive_slots alone
MergePoints == {0, 300, 600, SecondsPerDay, SecondsPerDay + 300}

MergePairs == {p \in MergePoints \X MergePoints : p[1] < p[2]}

\* any mapping over two task names holding at most MaxIntervals intervals in all
InitMerge ==
    /\ \E n1 \in 0..MaxIntervals : \E n2 \in 0..(MaxIntervals - n1) :
          \E x \in [1..n1 -> MergePairs] : \E y \in [1..n2 -> MergePairs] :
              task_schedule = [n \in {"t1", "t2"} |-> IF n = "t1" THEN x ELSE y]
    /\ db_tasks = <<>>
    /\ db_schedules = <<>>
    /\ db_status = <<>>
    /\ tasks = <<>>
    /\ all_slots = <<>>
    /\ task_starts = <<>>
    /\ task_ends = <<>>
    /\ linear = <<>>
    /\ task_vars = <<>>
    /\ overlap_intervals = <<>>
    /\ status = "NONE"
    /\ sol_starts = <<>>
    /\ sol_ends = <<>>
    /\ solution = <<>>
    /\ combined_schedule = <<>>
    /\ output = "none"
    /\ remerged = <<>>
    /\ pc = "merge"
    /\ i = 1

Merge ==
    /\ pc = "merge"
    /\ combined_schedule' = combine_consecutive_slots(task_schedule)
    /\ pc' = "merged"
    /\ UNCHANGED <<db_tasks, db_schedules, db_status, tasks, all_slots, task_starts,
                   task_ends, linear, task_vars, overlap_intervals, status, sol_starts,
                   sol_ends, solution, task_schedule, output, remerged, i>>

Remerge ==
    /\ pc = "merged"
    /\ remerged' = combine_consecutive_slots(combined_schedule)
    /\ pc' = "remerged"
    /\ UNCHANGED <<db_tasks, db_schedules, db_status, tasks, all_slots, task_starts,
                   task_ends, linear, task_vars, overlap_intervals, status, sol_starts,
                   sol_ends, solution, task_schedule, combined_schedule, output, i>>

NextMerge == Merge \/ Remerge

SpecMerge == InitMerge /\ [][NextMerge]_vars

\* ------------------------------------------------------- properties
Scheduled == pc = "done" /\ status \in {"OPTIMAL", "FEASIBLE"}

Disjoint(b1, b2) == b1[2] <= b2[1] \/ b2[2] <= b1[1]

Capacity(vs) == SumSeq([k \in 1..Len(vs) |-> vs[k][2] - vs[k][1]])

BlockSum(blocks) == SumSeq([k \in 1..Len(blocks) |-> blocks[k][2] - blocks[k][1]])

Required(task) == task.duration * SecondsPerMinute

\* slots of one category never share time (no overlapping rules)
SlotsDisjoint ==
    \A j, k \in 1..Len(all_slots) :
        (j < k /\ all_slots[j][3] = all_slots[k][3]) =>
            Disjoint(all_slots[j], all_slots[k])

\* C1: in every schedule the pass outputs, blocks of two different tasks
\* never intersect, whatever the categories of the tasks.
C1_GlobalNonOverlap ==
    Scheduled =>
        \A n1, n2 \in DOMAIN combined_schedule :
            n1 # n2 =>
                \A b1 \in Range(combined_schedule[n1]) :
                    \A b2 \in Range(combined_schedule[n2]) : Disjoint(b1, b2)

\* two tasks of different categories, both placed
C1_Witness ==
    /\ Scheduled
    /\ {"t2", "t6"} \subseteq DOMAIN combined_schedule

\* C2: every task of the output schedule has blocks summing to exactly
\* duration * 60 seconds.
C2_DurationCoverage ==
    Scheduled =>
        \A k \in 1..Len(task_vars) :
            task_vars[k].task.name \in DOMAIN combined_schedule =>
                BlockSum(combined_schedule[task_vars[k].task.name])
                    = Required(task_vars[k].task)

\* C3: every block of a task lies within [start_time, deadline], and every
\* solved interval lies inside one generated slot of the task's category.
C3_BoundCompliance ==
    Scheduled =>
        \A k \in 1..Len(task_vars) :
            LET task == task_vars[k].task
            IN /\ task.name \in DOMAIN combined_schedule =>
                    \A b \in Range(combined_schedule[task.name]) :
                        task.start_time <= b[1] /\ b[2] <= task.deadline
               /\ \A iv \in Range(task_schedule[task.name]) :
                    \E s \in Range(all_slots) :
                        /\ s[3] = task.category
                        /\ s[2] - s[1] = SlotMinutes * SecondsPerMinute
                        /\ s[1] <= iv[1]
                        /\ iv[2] <= s[2]

\* a placed task whose interval sits strictly inside its slot
C3_Witness ==
    /\ Scheduled
    /\ "t3" \in DOMAIN combined_schedule
    /\ combined_schedule["t3"][1][1] > 0
    /\ combined_schedule["t3"][1][2] < 300

Unschedulable(task) == Capacity(valid_slots(task, all_slots)) < Required(task)

\* C4: a task with no candidate slot, or with less candidate capacity than
\* its duration, is marked delayed, is absent from the constraint model and
\* from the output; every other task is modelled.
C4_UnschedulableExcluded ==
    pc \in {"solve", "done"} =>
        \A k \in 1..Len(tasks) :
            IF Unschedulable(tasks[k])
            THEN /\ db_status[tasks[k].name] = "delayed"
                 /\ tasks[k].name \notin TaskNames
                 /\ tasks[k].name \notin DOMAIN task_starts
                 /\ \A iv \in Range(overlap_intervals) : iv.name[1] # tasks[k].name
                 /\ tasks[k].name \notin DOMAIN combined_schedule
            ELSE tasks[k].name \in TaskNames

\* C5: a pass whose solver outcome is INFEASIBLE or UNKNOWN prints only
\* the no-solution report and has updated no task status.
C5_FailureMutatesNothing ==
    (pc = "done" /\ status \in {"INFEASIBLE", "UNKNOWN"}) =>
        /\ output = "no_solution"
        /\ \A n \in DOMAIN db_status : db_status[n] = "pending"

\* C6: two tasks of one category whose windows overlap, whose candidate
\* slots are shared, and whose durations together fit in the capacity of
\* the shared candidate slots, are both placed, at non-overlapping times.
C6_SharedSlotsSeparated ==
    (/\ pc = "done"
     /\ Len(tasks) = 2
     /\ SlotsDisjoint
     /\ tasks[1].category = tasks[2].category
     /\ tasks[1].start_time < tasks[2].deadline
     /\ tasks[2].start_time < tasks[1].deadline
     /\ valid_slots(tasks[1], all_slots) = valid_slots(tasks[2], all_slots)
     /\ Required(tasks[1]) + Required(tasks[2])
            <= Capacity(valid_slots(tasks[1], all_slots)))
    => /\ status \in {"OPTIMAL", "FEASIBLE"}
       /\ {tasks[1].name, tasks[2].name} \subseteq DOMAIN combined_schedule
       /\ \A b1 \in Range(combined_schedule[tasks[1].name]) :
            \A b2 \in Range(combined_schedule[tasks[2].name]) : Disjoint(b1, b2)

\* C7: a single task whose deadline is its start bound plus its duration,
\* with matching slots covering exactly that window, is scheduled as the
\* one block [start_time, deadline].
C7_ExactFit ==
    (/\ pc = "done"
     /\ Len(tasks) = 1
     /\ SlotsDisjoint
     /\ tasks[1].deadline = tasks[1].start_time + Required(tasks[1])
     /\ Capacity(valid_slots(tasks[1], all_slots)) = Required(tasks[1]))
    => /\ status \in {"OPTIMAL", "FEASIBLE"}
       /\ tasks[1].name \in DOMAIN combined_schedule
       /\ combined_schedule[tasks[1].name]
            = <<<<tasks[1].start_time, tasks[1].deadline>>>>

\* C9: in every solution, task_start equals the solved start of the task's
\* earliest split interval and task_end equals task_start + duration * 60.
C9_TaskStartTied ==
    Scheduled =>
        \A k \in 1..Len(task_vars) :
            LET task == task_vars[k].task
                ivs == task_vars[k].split_intervals
            IN ivs # <<>> =>
                 /\ sol_starts[task.name] = Min({solution[iv.name] : iv \in Range(ivs)})
                 /\ sol_ends[task.name] = sol_starts[task.name] + Required(task)

\* two rows of one category and one weekday never share time
RulesDisjoint ==
    \A j, k \in 1..Len(db_schedules) :
        (/\ j < k
         /\ db_schedules[j].category = db_schedules[k].category
         /\ db_schedules[j].day_of_week = db_schedules[k].day_of_week)
        => \/ db_schedules[j].end_hour <= db_schedules[k].start_hour
           \/ db_schedules[k].end_hour <= db_schedules[j].start_hour

\* C10: the slots of any one category appear in all_slots in ascending
\* order of start, also when a category has several non-overlapping rules
\* on one weekday, stored in any order.
C10_ChronologicalSlots ==
    (pc # "slots" /\ RulesDisjoint) =>
        \A j, k \in 1..Len(all_slots) :
            (j < k /\ all_slots[j][3] = all_slots[k][3]) =>
                all_slots[j][1] < all_slots[k][1]

\* C8: merging the merged mapping again gives the same mapping.
C8_MergeIdempotent ==
    pc = "remerged" => remerged = combined_schedule

\* three intervals given out of order that form one chain, merged to one block
C8_Witness ==
    /\ pc = "remerged"
    /\ Len(task_schedule["t1"]) = 3
    /\ task_schedule["t1"][1][1] > task_schedule["t1"][2][1]
    /\ Len(combined_schedule["t1"]) = 1
    /\ remerged = combined_schedule

====
